---- MODULE Spec2Model ----
(***************************************************************************)
(* Model of the Avatario avatar plugin for VideoSDK agents:                *)
(*   avatario_plugin.py  AvatarioAvatar (lifecycle), AvatarioAudioTrack,   *)
(*                       AvatarioVideoTrack                                *)
(*   api.py              AvatarioClient, AvatarioAgentParticipant,         *)
(*                       AvatarioMeetingHandler, AvatarioParticipantHandler*)
(* asyncio is single-threaded and cooperative: one action is the code a    *)
(* task runs between two suspension points (await that really suspends).   *)
(***************************************************************************)
EXTENDS Integers, Sequences, FiniteSets, TLC

\* ---------------------------------------------------------------- bounds
MaxConnectCalls == 2      \* connect() calls made by the pipeline
MaxJoins == 1             \* participant-joined events delivered by the meeting
MaxStreams == 1           \* stream-enabled events delivered by the meeting
MaxFrames == 1            \* frames each backend track delivers
MaxAudioCalls == 1        \* handle_audio_input() calls made by the pipeline
MaxCloseCalls == 2        \* aclose() calls made by the pipeline
MaxAudioPushes == 11      \* frames handed to the audio track
MaxVideoPushes == 3       \* frames handed to the video track
MaxPulls == 3             \* recv() calls on the audio track
MaxInterrupts == 1        \* interrupt() calls on the audio track
MaxInbound == 3           \* frames a backend track delivers to its relay loop
MaxEvents == 2            \* repeated participant-joined and stream-enabled events
MaxRetryCalls == 4        \* connect() calls, enough to use up the retry budget

\* ------------------------------------------------------- program constants
InitialRetryCount == 3    \* AvatarioAvatar._retry_count
SEND_CHUNK == 6000        \* slice length in _send_audio_data
AUDIO_QUEUE_MAXSIZE == 10 \* AvatarioAudioTrack.queue
VIDEO_QUEUE_MAXSIZE == 2  \* AvatarioVideoTrack.queue
AUDIO_SAMPLE_RATE == 48000
AUDIO_CHANNELS == 1
AUDIO_SAMPLE_WIDTH == 2
\* int(AUDIO_FRAME_DURATION_S * AUDIO_SAMPLE_RATE), 0.02 s of samples
AUDIO_SAMPLES_PER_FRAME == AUDIO_SAMPLE_RATE \div 50
AUDIO_CHUNK_SIZE == AUDIO_SAMPLES_PER_FRAME * AUDIO_CHANNELS * AUDIO_SAMPLE_WIDTH

Kinds == {"audio", "video"}

\* Lengths of the byte buffers handed to handle_audio_input.
AudioLens == {0, 6001}

\* ------------------------------------------------------------------ errors
\* An exception value: its class and, for a negotiation failure, the attempt
\* that observed it.
NoError == [kind |-> "None", attempt |-> 0]
HTTPError(n) == [kind |-> "ClientResponseError", attempt |-> n]
TypeErrorMissingLoop == [kind |-> "TypeError", attempt |-> 0]
AttributeErrorWs == [kind |-> "AttributeError", attempt |-> 0]
FailedToConnect(last) == [kind |-> "Exception", attempt |-> last.attempt]

VARIABLES
    \* AvatarioAvatar
    run, stopping, ready, kill_signal,
    retry_count, last_error,
    tts_audio, output_audio, output_video,
    \* AvatarioAudioTrack.queue, AvatarioVideoTrack.queue
    audio_queue, video_queue,
    \* the other fields of the two tracks, and the position of a recv() call
    audio_track, video_track,
    \* the frame the last audio recv() returned, the frames video recv()
    \* returned, and how often the tracks' methods have been called
    audio_returned, video_returned, track_calls,
    \* AvatarioAgentParticipant and its meetings
    participant_joined, meetings, handlers,
    \* the connect() coroutine and its outcome
    connect_pc, connect_result, connect_error,
    \* the outcome of the last handle_audio_input() call
    audio_input_result,
    \* tasks: send_tts_audio, get_output_*, _process_*_frames
    senders, relays, procs,
    \* environment: backend answers, and how often each input has occurred
    plan, attempts, call_attempts, connect_calls, close_calls, joins, streams,
    frames, audio_calls

flagVars == <<run, stopping, ready, kill_signal>>
retryVars == <<retry_count, last_error>>
ipcVars == <<tts_audio, output_audio, output_video>>
pacerVars == <<audio_track, video_track, audio_returned, video_returned,
               track_calls>>
trackVars == <<audio_queue, video_queue, pacerVars>>
meetingVars == <<participant_joined, meetings, handlers>>
connectVars == <<connect_pc, connect_result, connect_error>>
taskVars == <<senders, relays, procs>>
attemptVars == <<plan, attempts, call_attempts>>
countVars == <<connect_calls, close_calls, joins, streams, frames, audio_calls>>

\* Everything but the count of close() calls.
sessionVars == <<flagVars, retryVars, ipcVars, trackVars, meetingVars,
                 connectVars, audio_input_result, taskVars, attemptVars,
                 connect_calls, joins, streams, frames, audio_calls>>
vars == <<sessionVars, close_calls>>

\* ------------------------------------------------------------- helpers
Min(a, b) == IF a < b THEN a ELSE b

\* What the avatar backend answers to the n-th start-session POST.
AttemptOutcome(n) == plan[n]

\* A handle_audio_input that does not pad an odd buffer.
PaddedLen_NoPad(n) == n

\* len(audio_data) after `if len(audio_data) % 2 != 0: audio_data += b'\x00'`
PaddedLen(n) == IF n % 2 # 0 THEN n + 1 ELSE n

\* The slices data[i:i + 6000] for i in range(0, len(data), 6000); a slice
\* is named by its buffer and its byte range [lo, hi).
SendAudioData(buf, n) ==
    [k \in 1..((n + SEND_CHUNK - 1) \div SEND_CHUNK) |->
        [buf |-> buf,
         lo |-> (k - 1) * SEND_CHUNK,
         hi |-> Min(k * SEND_CHUNK, n)]]

NoChunk == [buf |-> 0, lo |-> 0, hi |-> 0]

\* An add_frame that never drops a frame.
AudioAddFrame_NoEvict(q, f) == Append(q, f)

\* AvatarioAudioTrack.add_frame: drop the oldest frame when full, then put.
AudioAddFrame(q, f) ==
    IF Len(q) >= AUDIO_QUEUE_MAXSIZE THEN Append(Tail(q), f) ELSE Append(q, f)

\* An add_frame that keeps the frames already queued.
VideoAddFrame_KeepQueued(q, f) == Append(q, f)

\* AvatarioVideoTrack.add_frame: empty the queue, then put.
VideoAddFrame(q, f) == <<f>>

\* AvatarioAudioTrack.__init__: live, no start time yet, no buffered bytes.
NewAudioTrack ==
    [live |-> TRUE, started |-> FALSE, timestamp |-> 0, buffer |-> 0,
     recv_pc |-> "idle"]

\* AvatarioVideoTrack.__init__
NewVideoTrack == [started |-> FALSE, recv_pc |-> "idle"]

\* A frame as recv() hands it out: pts is -1 while unset (None), and
\* silence_bytes is the length of a synthesized all-zero payload.
NoFrame == [kind |-> "none", id |-> 0, pts |-> -1, silence_bytes |-> 0]

AddFrame(kind, q, f) ==
    IF kind = "audio" THEN AudioAddFrame(q, f) ELSE VideoAddFrame(q, f)

RECURSIVE AddFrames(_, _, _)
AddFrames(kind, q, fs) ==
    IF fs = <<>> THEN q
    ELSE AddFrames(kind, AddFrame(kind, q, Head(fs)), Tail(fs))

\* ---------------------------------------------------------------- Init
\* The session as AvatarioAvatar.__init__ leaves it; the backend's answers
\* to the start-session POSTs are fixed in advance.
InitSession ==
    /\ run = TRUE
    /\ stopping = FALSE
    /\ ready = FALSE
    /\ kill_signal = FALSE
    /\ retry_count = InitialRetryCount
    /\ last_error = NoError
    /\ tts_audio = <<>>
    /\ output_audio = <<>>
    /\ output_video = <<>>
    /\ audio_queue = <<>>
    /\ video_queue = <<>>
    /\ audio_track = NewAudioTrack
    /\ video_track = NewVideoTrack
    /\ audio_returned = NoFrame
    /\ video_returned = <<>>
    /\ track_calls = [audio_pushed |-> 0, video_pushed |-> 0, pulls |-> 0,
                      interrupts |-> 0]
    /\ participant_joined = FALSE
    /\ meetings = 0
    /\ handlers = 0
    /\ connect_pc = "idle"
    /\ connect_result = "none"
    /\ connect_error = NoError
    /\ audio_input_result = "none"
    /\ senders = <<>>
    /\ relays = <<>>
    /\ procs = <<>>
    /\ attempts = 0
    /\ call_attempts = 0
    /\ connect_calls = 0
    /\ close_calls = 0
    /\ joins = 0
    /\ streams = 0
    /\ frames = [k \in Kinds |-> 0]
    /\ audio_calls = 0

Init ==
    /\ InitSession
    /\ plan \in [1..MaxConnectCalls -> {"ok", "fail"}]

\* ------------------------------------------------------------- connect()
\* The tail of a successful attempt: _initialize_connection after
\* create_conversation returned (ready.set(), the two processing tasks),
\* then the rest of connect().
ConnectionEstablished ==
    /\ ready' = TRUE
    /\ procs' = procs \o <<[kind |-> "video", pc |-> "start"],
                           [kind |-> "audio", pc |-> "start"]>>
    /\ connect_pc' = "idle"
    /\ connect_result' = "returned"
    /\ connect_error' = NoError

\* connect() up to its first suspension, the POST of create_conversation:
\* a new AvatarioAudioTrack, then _initialize_connection(loop).  The
\* pipeline calls connect() at most `calls` times.
ConnectCallUpTo(calls) ==
    /\ connect_pc = "idle"
    /\ connect_calls < calls
    /\ connect_calls' = connect_calls + 1
    /\ audio_queue' = <<>>
    /\ audio_track' = NewAudioTrack
    /\ IF retry_count = 0
       THEN /\ connect_result' = "raised"
            /\ connect_error' = FailedToConnect(last_error)
            /\ call_attempts' = 0
            /\ UNCHANGED <<connect_pc, attempts>>
       ELSE /\ connect_pc' = "post"
            /\ connect_result' = "pending"
            /\ connect_error' = NoError
            /\ attempts' = attempts + 1
            /\ call_attempts' = 1
    /\ UNCHANGED <<run, stopping, ready, retryVars, ipcVars, video_queue,
                   video_track, audio_returned, video_returned, track_calls,
                   meetingVars, audio_input_result, taskVars, plan,
                   close_calls, joins, streams, frames, audio_calls>>

ConnectCallEffects == ConnectCallUpTo(MaxConnectCalls)

\* A connect() that builds a fresh kill_signal event for the new connection.
ConnectCall_NewKillSignal ==
    /\ ConnectCallEffects
    /\ kill_signal' = FALSE

\* connect() uses the ipc_data that __init__ built.
ConnectCall ==
    /\ ConnectCallEffects
    /\ UNCHANGED kill_signal

\* A create_conversation that does not wait for the event.
ParticipantJoinedIsSet_NoWait == TRUE

\* `await participant_joined.wait()` goes on only when the event is set.
ParticipantJoinedIsSet == participant_joined

\* The POST answered with a success status: join the meeting, then wait for
\* participant_joined (Event.wait() returns at once when the event is set).
PostSucceeded ==
    /\ connect_pc = "post"
    /\ AttemptOutcome(attempts) = "ok"
    /\ meetings' = meetings + 1
    /\ IF ParticipantJoinedIsSet
       THEN ConnectionEstablished
       ELSE /\ connect_pc' = "wait_joined"
            /\ UNCHANGED <<ready, procs, connect_result, connect_error>>
    /\ UNCHANGED <<run, stopping, kill_signal, retryVars, ipcVars, trackVars,
                   participant_joined, handlers, audio_input_result, senders,
                   relays, attemptVars, countVars>>

\* A failed attempt that leaves the budget as it is.
RetryCountAfterFailure_Kept(n) == n

\* `self._retry_count -= 1`
RetryCountAfterFailure(n) == n - 1

\* The POST failed (raise_for_status): the except branch of
\* _initialize_connection.
PostFailed ==
    /\ connect_pc = "post"
    /\ AttemptOutcome(attempts) = "fail"
    /\ last_error' = HTTPError(attempts)
    /\ retry_count' = RetryCountAfterFailure(retry_count)
    /\ IF retry_count' > 0
       THEN /\ connect_pc' = "backoff"
            /\ UNCHANGED <<connect_result, connect_error>>
       ELSE /\ connect_pc' = "idle"
            /\ connect_result' = "raised"
            /\ connect_error' = HTTPError(attempts)
    /\ UNCHANGED <<flagVars, ipcVars, trackVars, meetingVars,
                   audio_input_result, taskVars, attemptVars, countVars>>

\* asyncio.sleep(2) elapsed: `await self._initialize_connection()` is called
\* without the required positional argument `loop`, which raises TypeError
\* before the body runs; the error leaves connect().
BackoffElapsed ==
    /\ connect_pc = "backoff"
    /\ connect_pc' = "idle"
    /\ connect_result' = "raised"
    /\ connect_error' = TypeErrorMissingLoop
    /\ UNCHANGED <<flagVars, retryVars, ipcVars, trackVars, meetingVars,
                   audio_input_result, taskVars, attemptVars, countVars>>

\* participant_joined.wait() returned.
JoinedWake ==
    /\ connect_pc = "wait_joined"
    /\ ParticipantJoinedIsSet
    /\ ConnectionEstablished
    /\ UNCHANGED <<run, stopping, kill_signal, retryVars, ipcVars, trackVars,
                   meetingVars, audio_input_result, senders, relays,
                   attemptVars, countVars>>

\* --------------------------------------------------------------- close()
\* _cleanup_connections: ready.clear(); _is_speaking = False; the
\* speech-timeout task is never created, so there is nothing to cancel.
CleanupConnections ==
    ready' = FALSE

\* An aclose() without its early return.
AlreadyStopping_NoGuard == FALSE

\* `if self._stopping: return`
AlreadyStopping == stopping

\* aclose(): no await in it suspends, so it runs as one step.
Aclose ==
    /\ close_calls < MaxCloseCalls
    /\ close_calls' = close_calls + 1
    /\ IF AlreadyStopping
       THEN UNCHANGED sessionVars
       ELSE /\ stopping' = TRUE
            /\ run' = FALSE
            /\ kill_signal' = TRUE
            /\ CleanupConnections
            /\ UNCHANGED <<retryVars, ipcVars, trackVars, meetingVars,
                           connectVars, audio_input_result, taskVars,
                           attemptVars, connect_calls, joins, streams, frames,
                           audio_calls>>

\* ---------------------------------------------------- handle_audio_input()
\* A handle_audio_input() without its first test.
Closing_NoGuard == FALSE

\* `if not self.run or self._stopping: return`
Closing == ~run \/ stopping

\* The queue is unbounded, so no put suspends and the call is one step.  The
\* else branch formats `self.ws`, an attribute AvatarioAvatar never defines:
\* AttributeError, raised outside any try.
HandleAudioInput(n) ==
    /\ audio_calls < MaxAudioCalls
    /\ audio_calls' = audio_calls + 1
    /\ IF Closing
       THEN /\ audio_input_result' = "returned"
            /\ UNCHANGED tts_audio
       ELSE IF ready
       THEN /\ tts_audio' =
                  tts_audio \o SendAudioData(audio_calls + 1, PaddedLen(n))
            /\ audio_input_result' = "returned"
       ELSE /\ audio_input_result' = AttributeErrorWs.kind
            /\ UNCHANGED tts_audio
    /\ UNCHANGED <<flagVars, retryVars, output_audio, output_video, trackVars,
                   meetingVars, connectVars, taskVars, attemptVars,
                   connect_calls, close_calls, joins, streams, frames>>

\* ------------------------------------------------------- meeting events
\* AvatarioMeetingHandler.on_participant_joined, delivered by a joined
\* meeting: for the backend participant, register a participant handler, set
\* the event and start a sender task; for anyone else, nothing.
OnParticipantJoinedUpTo(name, events) ==
    /\ meetings > 0
    /\ IF name = "backend_participant"
       THEN /\ joins < events
            /\ joins' = joins + 1
            /\ handlers' = handlers + 1
            /\ participant_joined' = TRUE
            /\ senders' = Append(senders, [pc |-> "get", chunk |-> NoChunk])
       ELSE UNCHANGED <<joins, handlers, participant_joined, senders>>
    /\ UNCHANGED <<flagVars, retryVars, ipcVars, trackVars, meetings,
                   connectVars, audio_input_result, relays, procs,
                   attemptVars, connect_calls, close_calls, streams, frames,
                   audio_calls>>

OnParticipantJoined(name) == OnParticipantJoinedUpTo(name, MaxJoins)

\* AvatarioParticipantHandler.on_stream_enabled, delivered to a handler
\* registered on the backend participant: a relay task per audio or video
\* stream.
OnStreamEnabledUpTo(kind, events) ==
    /\ handlers > 0
    /\ IF kind \in Kinds
       THEN /\ streams < events
            /\ streams' = streams + 1
            /\ relays' = Append(relays,
                                [kind |-> kind, pc |-> "start", polls |-> 0])
       ELSE UNCHANGED <<streams, relays>>
    /\ UNCHANGED <<flagVars, retryVars, ipcVars, trackVars, meetingVars,
                   connectVars, audio_input_result, senders, procs,
                   attemptVars, connect_calls, close_calls, joins, frames,
                   audio_calls>>

OnStreamEnabled(kind) == OnStreamEnabledUpTo(kind, MaxStreams)

\* -------------------------------------------------------- send_tts_audio
\* A sender that takes the chunk queued last.
SenderTakes_Last(q) == q[Len(q)]

\* `audio_data = await self._ipc_data["tts_audio"].get()`
SenderTakes(q) == Head(q)

\* `while True`: the task has no exit.  get() returned a chunk, and
\* meeting.send(chunk, unreliable) is called with it.
SenderGet(i) ==
    /\ i \in DOMAIN senders
    /\ senders[i].pc = "get"
    /\ tts_audio # <<>>
    /\ senders' = [senders EXCEPT
                     ![i] = [pc |-> "send", chunk |-> SenderTakes(tts_audio)]]
    /\ tts_audio' = Tail(tts_audio)
    /\ UNCHANGED <<flagVars, retryVars, output_audio, output_video, trackVars,
                   meetingVars, connectVars, audio_input_result, relays,
                   procs, attemptVars, countVars>>

\* meeting.send(chunk, unreliable) returned.
SenderSend(i) ==
    /\ i \in DOMAIN senders
    /\ senders[i].pc = "send"
    /\ senders' = [senders EXCEPT ![i] = [pc |-> "get", chunk |-> NoChunk]]
    /\ UNCHANGED <<flagVars, retryVars, ipcVars, trackVars, meetingVars,
                   connectVars, audio_input_result, relays, procs,
                   attemptVars, countVars>>

\* --------------------------------- get_output_audio / get_output_video
OutputQueue(kind) == IF kind = "audio" THEN output_audio ELSE output_video

\* A relay loop that never tests the kill signal.
RelayLoopTest_WhileTrue(r) == [r EXCEPT !.pc = "recv"]

\* `while not self.ipc_data["kill_signal"].is_set()`: leave the loop, or
\* start the next wait_for(track.recv(), timeout=2).
RelayLoopTest(r) ==
    IF kill_signal THEN [r EXCEPT !.pc = "done"] ELSE [r EXCEPT !.pc = "recv"]

\* polls counts the receive attempts of a relay that ended after the kill
\* signal was set (the count stops at 2).
RelayPolled(r) ==
    IF kill_signal THEN [r EXCEPT !.polls = Min(@ + 1, 2)] ELSE r

\* The task's first run.
RelayStart(i) ==
    /\ i \in DOMAIN relays
    /\ relays[i].pc = "start"
    /\ relays' = [relays EXCEPT ![i] = RelayLoopTest(@)]
    /\ UNCHANGED <<flagVars, retryVars, ipcVars, trackVars, meetingVars,
                   connectVars, audio_input_result, senders, procs,
                   attemptVars, countVars>>

\* A relay that puts the frame ahead of the queued ones.
RelayPut_AtFront(q, f) == <<f>> \o q

\* `await self.ipc_data["output_audio"].put(frame)` (or output_video)
RelayPut(q, f) == Append(q, f)

\* track.recv() delivered a frame within the 2 seconds; the put on the
\* unbounded queue does not suspend.
RelayRecvFrameUpTo(i, delivered) ==
    /\ i \in DOMAIN relays
    /\ relays[i].pc = "recv"
    /\ LET k == relays[i].kind
           f == frames[k] + 1
       IN  /\ frames[k] < delivered
           /\ frames' = [frames EXCEPT ![k] = f]
           /\ IF k = "audio"
              THEN /\ output_audio' = RelayPut(output_audio, f)
                   /\ UNCHANGED output_video
              ELSE /\ output_video' = RelayPut(output_video, f)
                   /\ UNCHANGED output_audio
    /\ relays' = [relays EXCEPT ![i] = RelayLoopTest(RelayPolled(@))]
    /\ UNCHANGED <<flagVars, retryVars, tts_audio, trackVars, meetingVars,
                   connectVars, audio_input_result, senders, procs,
                   attemptVars, connect_calls, close_calls, joins, streams,
                   audio_calls>>

RelayRecvFrame(i) == RelayRecvFrameUpTo(i, MaxFrames)

\* asyncio.wait_for(track.recv(), timeout=2) timed out: `continue`.
RelayTimeout(i) ==
    /\ i \in DOMAIN relays
    /\ relays[i].pc = "recv"
    /\ relays' = [relays EXCEPT ![i] = RelayLoopTest(RelayPolled(@))]
    /\ UNCHANGED <<flagVars, retryVars, ipcVars, trackVars, meetingVars,
                   connectVars, audio_input_result, senders, procs,
                   attemptVars, countVars>>

\* track.recv() raised something other than TimeoutError (MediaStreamError
\* when the track ends): nothing catches it and the task dies.
RelayRecvError(i) ==
    /\ i \in DOMAIN relays
    /\ relays[i].pc = "recv"
    /\ relays' = [relays EXCEPT ![i] = [RelayPolled(@) EXCEPT !.pc = "failed"]]
    /\ UNCHANGED <<flagVars, retryVars, ipcVars, trackVars, meetingVars,
                   connectVars, audio_input_result, senders, procs,
                   attemptVars, countVars>>

\* ------------------------ _process_audio_frames / _process_video_frames
\* `while self.run and not self._stopping`
ProcLoopTest == run /\ ~stopping

TrackQueue(kind) == IF kind = "audio" THEN audio_queue ELSE video_queue

\* From the top of the loop to the next suspension: Queue.get() does not
\* suspend while the queue holds a frame, so the loop passes every queued
\* frame to add_frame and then waits in get(), unless the test fails first.
\* taken is the number of frames consumed before the top of the loop.
ProcRun(i, taken) ==
    LET k == procs[i].kind
        q == OutputQueue(k)
        n == IF ProcLoopTest THEN Len(q) ELSE taken
        nq == AddFrames(k, TrackQueue(k), SubSeq(q, 1, n))
        rest == SubSeq(q, n + 1, Len(q))
    IN  /\ procs' = [procs EXCEPT
                       ![i].pc = IF ProcLoopTest THEN "get" ELSE "done"]
        /\ IF k = "audio"
           THEN /\ output_audio' = rest
                /\ audio_queue' = nq
                /\ UNCHANGED <<output_video, video_queue>>
           ELSE /\ output_video' = rest
                /\ video_queue' = nq
                /\ UNCHANGED <<output_audio, audio_queue>>
        /\ UNCHANGED <<flagVars, retryVars, tts_audio, pacerVars, meetingVars,
                       connectVars, audio_input_result, senders, relays,
                       attemptVars, countVars>>

\* The task's first run.
ProcStart(i) ==
    /\ i \in DOMAIN procs
    /\ procs[i].pc = "start"
    /\ ProcRun(i, 0)

\* The pending get() is woken by a frame: that frame is processed before the
\* loop test is evaluated again.
ProcWake(i) ==
    /\ i \in DOMAIN procs
    /\ procs[i].pc = "get"
    /\ OutputQueue(procs[i].kind) # <<>>
    /\ ProcRun(i, 1)

\* ------------------------------------------------------------------ Next
SenderIds == 1..MaxJoins
RelayIds == 1..MaxStreams
ProcIds == 1..(2 * MaxConnectCalls)

Next ==
    \/ ConnectCall
    \/ PostSucceeded
    \/ PostFailed
    \/ BackoffElapsed
    \/ JoinedWake
    \/ Aclose
    \/ \E n \in AudioLens : HandleAudioInput(n)
    \/ \E name \in {"backend_participant", "guest"} : OnParticipantJoined(name)
    \/ \E kind \in Kinds \cup {"share"} : OnStreamEnabled(kind)
    \/ \E i \in SenderIds : SenderGet(i)
    \/ \E i \in SenderIds : SenderSend(i)
    \/ \E i \in RelayIds : RelayStart(i)
    \/ \E i \in RelayIds : RelayRecvFrame(i)
    \/ \E i \in RelayIds : RelayTimeout(i)
    \/ \E i \in RelayIds : RelayRecvError(i)
    \/ \E i \in ProcIds : ProcStart(i)
    \/ \E i \in ProcIds : ProcWake(i)

Spec == Init /\ [][Next]_vars

\* The event loop runs every task that can run, and every timer fires: the
\* 2-second receive timeout and the 2-second backoff.  Nothing obliges the
\* environment (the pipeline, the backend, the meeting) to act.
Fairness ==
    /\ WF_vars(BackoffElapsed)
    /\ WF_vars(JoinedWake)
    /\ \A i \in SenderIds : WF_vars(SenderGet(i)) /\ WF_vars(SenderSend(i))
    /\ \A i \in RelayIds : WF_vars(RelayStart(i)) /\ WF_vars(RelayTimeout(i))
    /\ \A i \in ProcIds : WF_vars(ProcStart(i)) /\ WF_vars(ProcWake(i))

FairSpec == Spec /\ Fairness

\* The relay loops on their own.  A relay reads only the kill signal and
\* writes only its own position and the unbounded output queues, so the
\* pipeline's audio input, the sender task and the processing loops, which
\* touch none of these but by consuming the output queues, are left out.
RelayNext ==
    \/ ConnectCall
    \/ PostSucceeded
    \/ PostFailed
    \/ BackoffElapsed
    \/ JoinedWake
    \/ Aclose
    \/ \E name \in {"backend_participant", "guest"} : OnParticipantJoined(name)
    \/ \E kind \in Kinds \cup {"share"} : OnStreamEnabled(kind)
    \/ \E i \in RelayIds : RelayStart(i)
    \/ \E i \in RelayIds : RelayRecvFrame(i)
    \/ \E i \in RelayIds : RelayTimeout(i)
    \/ \E i \in RelayIds : RelayRecvError(i)

RelayFairness ==
    /\ WF_vars(BackoffElapsed)
    /\ WF_vars(JoinedWake)
    /\ \A i \in RelayIds : WF_vars(RelayStart(i)) /\ WF_vars(RelayTimeout(i))

RelaySpec == Init /\ [][RelayNext]_vars /\ RelayFairness

\* ================================================================ claims
FirstConnectFinished == connect_calls = 1 /\ connect_pc = "idle"

\* C1: when the first negotiate+join attempt of connect() fails and the
\* second would succeed, connect() makes a second attempt, returns without
\* raising with the session ready, and makes no third attempt.
C1_RetryThenSuccess ==
    (FirstConnectFinished /\ ~stopping /\ plan[1] = "fail" /\ plan[2] = "ok")
        => (connect_result = "returned" /\ ready /\ call_attempts = 2)

\* C2: from a fresh session, when every negotiate+join attempt fails,
\* connect() makes exactly 3 attempts and then raises an error that carries
\* the error of the third attempt; the session is not ready.
C2_ExhaustionAfterThreeAttempts ==
    (FirstConnectFinished /\ \A n \in DOMAIN plan : plan[n] = "fail")
        => /\ call_attempts = InitialRetryCount
           /\ connect_result = "raised"
           /\ connect_error.attempt = InitialRetryCount
           /\ ~ready

\* C3: ready is set only when a start-session POST succeeded and the
\* participant-joined event has fired; connect() has returned only when the
\* event has fired; and while connect() waits for the event nothing but the
\* event ends the wait (no timeout).
C3_ReadyOnlyAfterJoined ==
    /\ [](ready => (meetings > 0 /\ participant_joined))
    /\ [](connect_result = "returned" => participant_joined)
    /\ [][(connect_pc = "wait_joined" /\ ~participant_joined)
              => (connect_pc' = "wait_joined" /\ ~ready')]_vars

\* connect() waited for the backend participant and then returned ready.
C3_Witness ==
    /\ ready
    /\ connect_result = "returned"
    /\ participant_joined
    /\ connect_calls = 1
    /\ joins = 1

\* C4: once close() has run, the ready flag is never set again.
C4_ClosedNeverReady == stopping => ~ready

AllLoopsStopped ==
    /\ \A i \in DOMAIN procs : procs[i].pc = "done"
    /\ \A i \in DOMAIN relays : relays[i].pc \in {"done", "failed"}
    /\ \A i \in DOMAIN senders : senders[i].pc = "done"

\* C5: after close() sets the kill signal, the frame-processing loops, the
\* relay loops and the sender task all eventually stop, even if no further
\* frame or speech chunk arrives.
C5_LoopsTerminate == kill_signal ~> AllLoopsStopped

RelaysStopped == \A i \in DOMAIN relays : relays[i].pc \in {"done", "failed"}

\* C6: a relay loop ends at most one receive attempt after the kill signal
\* is set, and it has then stopped; under the fairness of the event loop and
\* of the receive timeout, every relay loop stops once the kill signal is
\* set, whether or not a frame arrives.
C6_RelayStopsWithinOnePoll ==
    /\ [](\A i \in DOMAIN relays :
            /\ relays[i].polls <= 1
            /\ relays[i].polls = 1 => relays[i].pc \in {"done", "failed"})
    /\ (kill_signal ~> RelaysStopped)

\* A relay that was waiting for a frame when the kill signal was set ended
\* its loop at the next checkpoint.
C6_Witness ==
    \E i \in DOMAIN relays :
        kill_signal /\ relays[i].polls = 1 /\ relays[i].pc = "done"

\* C7: handle_audio_input on a session that is not ready and not closing
\* returns normally and enqueues nothing.
C7_SilentWhenNotReady ==
    [][(audio_calls' = audio_calls + 1 /\ ~ready /\ ~Closing)
          => (audio_input_result' = "returned" /\ tts_audio' = tts_audio)]_vars

\* C8: handle_audio_input after close() has started returns normally and
\* changes no state of the session, whatever the bytes and whether or not
\* the session had been ready.
C8_NoOpAfterClose ==
    [][(audio_calls' = audio_calls + 1 /\ stopping)
          => /\ audio_input_result' = "returned"
             /\ UNCHANGED <<flagVars, retryVars, ipcVars, trackVars,
                            meetingVars, connectVars, taskVars>>]_vars

\* handle_audio_input returned on a closed session that was never ready: the
\* call was made after close().
C8_Witness ==
    /\ stopping
    /\ meetings = 0
    /\ audio_calls = 1
    /\ audio_input_result = "returned"

\* C9: the first close() sets the kill signal and the stopping flag and
\* clears the ready flag; a later close() changes nothing.
C9_CloseIdempotent ==
    [][(close_calls' = close_calls + 1)
          => IF close_calls = 0
             THEN kill_signal' /\ stopping' /\ ~run' /\ ~ready'
             ELSE UNCHANGED sessionVars]_vars

\* close() has been called twice.
C9_Witness ==
    close_calls = 2 /\ kill_signal /\ stopping /\ ~ready

\* C10: once the kill signal is set, no step clears it.
C10_KillSignalIsLatch == [][kill_signal => kill_signal']_vars

\* The kill signal is still set after a connect() that was called after
\* close() and ran to its end.
C10_Witness ==
    /\ kill_signal
    /\ close_calls = 1
    /\ connect_calls = 2
    /\ ready

\* ============================================== the outbound audio chunker
\* Lengths of the byte buffers handed to handle_audio_input when the chunker
\* is examined on its own: empty, odd and even, around one and two chunks.
InputLens == {0, 1, 2, 5999, 6000, 6001, 12000, 12001}

\* The bytes of the buffer of length n (none of them zero).
InputBytes(n) == [i \in 1..n |-> 1 + (i % 3)]

\* `audio_data = audio_data + b'\x00'` when the length is odd.
PadBytes(b) == IF Len(b) % 2 # 0 THEN b \o <<0>> ELSE b

\* The bytes data[lo:hi] of a slice.
ChunkBytes(c, data) == SubSeq(data, c.lo + 1, c.hi)

\* The session with the pipeline's audio input and the sender task; the
\* relay and processing loops neither read nor write the outbound queue.
ChunkerNext ==
    \/ ConnectCall
    \/ PostSucceeded
    \/ PostFailed
    \/ BackoffElapsed
    \/ JoinedWake
    \/ Aclose
    \/ \E name \in {"backend_participant", "guest"} : OnParticipantJoined(name)
    \/ \E n \in InputLens : HandleAudioInput(n)
    \/ \E i \in SenderIds : SenderGet(i)
    \/ \E i \in SenderIds : SenderSend(i)

ChunkerSpec == Init /\ [][ChunkerNext]_vars

RECURSIVE ConcatBytes(_, _)
ConcatBytes(chunks, data) ==
    IF chunks = <<>> THEN <<>>
    ELSE ChunkBytes(Head(chunks), data) \o ConcatBytes(Tail(chunks), data)

\* The chunks a step appended to the outbound queue.
Enqueued == SubSeq(tts_audio', Len(tts_audio) + 1, Len(tts_audio'))

\* C11: for every buffer b accepted while ready, the chunks enqueued,
\* concatenated in order, are b when len(b) is even and b followed by one
\* zero byte when it is odd; every chunk but the last has 6000 bytes, the
\* last has 1 to 6000, and an empty buffer enqueues nothing.
C11_ChunkingPreservesBytes ==
    [][\A n \in InputLens :
          (HandleAudioInput(n) /\ ready /\ ~Closing)
              => LET b == InputBytes(n)
                     m == Len(Enqueued)
                 IN  /\ Len(tts_audio') >= Len(tts_audio)
                     /\ SubSeq(tts_audio', 1, Len(tts_audio)) = tts_audio
                     /\ ConcatBytes(Enqueued, PadBytes(b))
                            = IF n % 2 = 0 THEN b ELSE b \o <<0>>
                     /\ \A k \in 1..m :
                            LET size == Enqueued[k].hi - Enqueued[k].lo
                            IN  IF k < m THEN size = 6000
                                ELSE size >= 1 /\ size <= 6000
                     /\ n = 0 => m = 0]_vars

\* An odd buffer of 12001 bytes went out as three chunks, the last of them
\* the final byte and the pad byte.
C11_Witness ==
    /\ Len(tts_audio) = 3
    /\ tts_audio[1].hi - tts_audio[1].lo = 6000
    /\ tts_audio[3].lo = 12000
    /\ tts_audio[3].hi = 12002

\* ===================================================== the playback pacers
\* The two track objects on their own: their methods, called in any order.
nonTrackVars == <<flagVars, retryVars, ipcVars, meetingVars, connectVars,
                  audio_input_result, taskVars, attemptVars, countVars>>

\* Byte counts handed to add_new_bytes: half a frame and a whole frame.
ByteLens == {AUDIO_CHUNK_SIZE \div 2, AUDIO_CHUNK_SIZE}

\* AvatarioAudioTrack.add_frame with a frame that is not None.
AudioTrackAddFrame ==
    /\ track_calls.audio_pushed < MaxAudioPushes
    /\ audio_queue' = AudioAddFrame(audio_queue, track_calls.audio_pushed + 1)
    /\ track_calls' = [track_calls EXCEPT !.audio_pushed = @ + 1]
    /\ UNCHANGED <<video_queue, audio_track, video_track, audio_returned,
                   video_returned, nonTrackVars>>

\* AvatarioAudioTrack.add_new_bytes: buffer the bytes, and turn every whole
\* chunk of chunk_size bytes into a frame, dropping the oldest frame when the
\* queue is full.
AudioAddNewBytes(n) ==
    LET total == audio_track.buffer + n
        k == total \div AUDIO_CHUNK_SIZE
        first == track_calls.audio_pushed
    IN  /\ first + k <= MaxAudioPushes
        /\ audio_queue' = AddFrames("audio", audio_queue,
                                    [j \in 1..k |-> first + j])
        /\ audio_track' = [audio_track EXCEPT !.buffer = total % AUDIO_CHUNK_SIZE]
        /\ track_calls' = [track_calls EXCEPT !.audio_pushed = first + k]
        /\ UNCHANGED <<video_queue, video_track, audio_returned,
                       video_returned, nonTrackVars>>

\* An interrupt that leaves the buffered bytes in place.
Interrupted_KeepBuffer(t) == t

\* interrupt(): after the queue is drained, audio_data_buffer.clear().
Interrupted(t) == [t EXCEPT !.buffer = 0]

\* AvatarioAudioTrack.interrupt: get_nowait() until the queue is empty.
AudioInterrupt ==
    /\ track_calls.interrupts < MaxInterrupts
    /\ track_calls' = [track_calls EXCEPT !.interrupts = @ + 1]
    /\ audio_queue' = <<>>
    /\ audio_track' = Interrupted(audio_track)
    /\ UNCHANGED <<video_queue, video_track, audio_returned, video_returned,
                   nonTrackVars>>

\* AvatarioAudioTrack.cleanup: interrupt(), then stop(), after which
\* readyState is no longer "live".
AudioCleanup ==
    /\ audio_queue' = <<>>
    /\ audio_track' = [Interrupted(audio_track) EXCEPT !.live = FALSE]
    /\ UNCHANGED <<video_queue, video_track, audio_returned, video_returned,
                   track_calls, nonTrackVars>>

\* _create_silence_frame: a zero-filled frame of samples_per_frame samples,
\* with no pts.
SilenceFrame ==
    [kind |-> "silence", id |-> 0, pts |-> -1,
     silence_bytes |-> AUDIO_CHUNK_SIZE]

\* A recv() that lets the error of its try block escape.
RecvFailed_Raises == [kind |-> "raised", id |-> 0, pts |-> -1, silence_bytes |-> 0]

\* `except Exception: ... return self._create_silence_frame()`
RecvFailed == SilenceFrame

\* next value of _timestamp: 0 on the first live call, then + samples
NextTimestamp(t) ==
    IF t.started THEN t.timestamp + AUDIO_SAMPLES_PER_FRAME ELSE 0

\* A pop that hands out the newest frame.
QueuePop_Newest(q) == [frame |-> q[Len(q)], rest |-> SubSeq(q, 1, Len(q) - 1)]

\* Queue.get_nowait() on a queue that holds a frame.
QueuePop(q) == [frame |-> Head(q), rest |-> Tail(q)]

\* recv() from `pts = self._timestamp` to its return: the oldest queued
\* frame or a silence frame, stamped with the timestamp.
AudioRecvReturn(t) ==
    /\ IF audio_queue # <<>>
       THEN /\ audio_returned' =
                  [kind |-> "frame", id |-> QueuePop(audio_queue).frame,
                   pts |-> t.timestamp, silence_bytes |-> 0]
            /\ audio_queue' = QueuePop(audio_queue).rest
       ELSE /\ audio_returned' = [SilenceFrame EXCEPT !.pts = t.timestamp]
            /\ UNCHANGED audio_queue
    /\ audio_track' = [t EXCEPT !.recv_pc = "idle"]
    /\ track_calls' = [track_calls EXCEPT !.pulls = @ + 1]

\* AvatarioAudioTrack.recv up to its first suspension.  On a track that is
\* not live MediaStreamError is raised and caught.  Otherwise the timestamp
\* advances, and the call sleeps when it is early (suspends) or goes on.
AudioRecvCall(suspends) ==
    /\ audio_track.recv_pc = "idle"
    /\ track_calls.pulls < MaxPulls
    /\ IF ~audio_track.live
       THEN /\ ~suspends
            /\ audio_returned' = RecvFailed
            /\ track_calls' = [track_calls EXCEPT !.pulls = @ + 1]
            /\ UNCHANGED <<audio_queue, audio_track>>
       ELSE LET t == [audio_track EXCEPT !.started = TRUE,
                                         !.timestamp = NextTimestamp(audio_track)]
            IN  IF suspends
                THEN /\ audio_track' = [t EXCEPT !.recv_pc = "sleep"]
                     /\ UNCHANGED <<audio_queue, audio_returned, track_calls>>
                ELSE AudioRecvReturn(t)
    /\ UNCHANGED <<video_queue, video_track, video_returned, nonTrackVars>>

\* asyncio.sleep(wait) elapsed.
AudioRecvResume ==
    /\ audio_track.recv_pc = "sleep"
    /\ AudioRecvReturn(audio_track)
    /\ UNCHANGED <<video_queue, video_track, video_returned, nonTrackVars>>

\* AvatarioVideoTrack.add_frame
VideoTrackAddFrame ==
    /\ track_calls.video_pushed < MaxVideoPushes
    /\ video_queue' = VideoAddFrame(video_queue, track_calls.video_pushed + 1)
    /\ track_calls' = [track_calls EXCEPT !.video_pushed = @ + 1]
    /\ UNCHANGED <<audio_queue, audio_track, video_track, audio_returned,
                   video_returned, nonTrackVars>>

\* A get() that leaves the frame in the queue.
VideoQueueGet_Peek(q) == [frame |-> Head(q), rest |-> q]

\* Queue.get() once the queue holds a frame.
VideoQueueGet(q) == QueuePop(q)

\* AvatarioVideoTrack.recv after get() returned: the start time is fixed on
\* the first frame and the frame is stamped from the wall clock (the clock
\* is not part of the model).
VideoRecvReturn ==
    /\ video_returned' = Append(video_returned, VideoQueueGet(video_queue).frame)
    /\ video_queue' = VideoQueueGet(video_queue).rest
    /\ video_track' = [started |-> TRUE, recv_pc |-> "idle"]

\* AvatarioVideoTrack.recv: `await self.queue.get()` returns at once when
\* the queue holds a frame and suspends when it is empty.
VideoRecvCall ==
    /\ video_track.recv_pc = "idle"
    /\ IF video_queue # <<>>
       THEN VideoRecvReturn
       ELSE /\ video_track' = [video_track EXCEPT !.recv_pc = "get"]
            /\ UNCHANGED <<video_queue, video_returned>>
    /\ UNCHANGED <<audio_queue, audio_track, audio_returned, track_calls,
                   nonTrackVars>>

\* The pending get() is woken by a frame.
VideoRecvWake ==
    /\ video_track.recv_pc = "get"
    /\ video_queue # <<>>
    /\ VideoRecvReturn
    /\ UNCHANGED <<audio_queue, audio_track, audio_returned, track_calls,
                   nonTrackVars>>

AudioTrackNext ==
    \/ AudioTrackAddFrame
    \/ \E n \in ByteLens : AudioAddNewBytes(n)
    \/ AudioInterrupt
    \/ AudioCleanup
    \/ \E suspends \in BOOLEAN : AudioRecvCall(suspends)
    \/ AudioRecvResume

VideoTrackNext ==
    \/ VideoTrackAddFrame
    \/ VideoRecvCall
    \/ VideoRecvWake

AudioTrackSpec == Init /\ [][AudioTrackNext]_vars

\* The event loop resumes a recv() whose get() has a frame.
VideoTrackSpec == Init /\ [][VideoTrackNext]_vars /\ WF_vars(VideoRecvWake)

TrackSpec == Init /\ [][AudioTrackNext \/ VideoTrackNext]_vars

\* ===================================================== claims on the pacers
\* C12: the audio queue never holds more than 10 frames and the video queue
\* never more than 2, whatever add_frame, add_new_bytes, recv, interrupt and
\* cleanup calls were made; a frame added to a full audio queue takes the
\* place of exactly one frame, the oldest, the others keeping their order.
C12_BoundedQueues ==
    [][/\ Len(audio_queue') <= AUDIO_QUEUE_MAXSIZE
       /\ Len(video_queue') <= VIDEO_QUEUE_MAXSIZE
       /\ (AudioTrackAddFrame /\ Len(audio_queue) = AUDIO_QUEUE_MAXSIZE)
            => audio_queue' = Append(Tail(audio_queue),
                                     track_calls.audio_pushed + 1)
       /\ \A n \in ByteLens :
            (/\ AudioAddNewBytes(n)
             /\ Len(audio_queue) = AUDIO_QUEUE_MAXSIZE
             /\ track_calls'.audio_pushed = track_calls.audio_pushed + 1)
            => audio_queue' = Append(Tail(audio_queue),
                                     track_calls.audio_pushed + 1)]_vars

\* The eleventh frame was added to a full audio queue and frame 1 is gone;
\* the video queue has seen a second frame.
C12_Witness ==
    /\ track_calls.audio_pushed = AUDIO_QUEUE_MAXSIZE + 1
    /\ Len(audio_queue) = AUDIO_QUEUE_MAXSIZE
    /\ Head(audio_queue) = 2
    /\ track_calls.video_pushed >= 2
    /\ Len(video_queue) = 1

\* The last Min(n, capacity) of the frames 1..n, oldest first.
LastPushed(n) ==
    LET c == Min(n, AUDIO_QUEUE_MAXSIZE) IN [i \in 1..c |-> n - c + i]

\* C13: after N frames were added to the audio queue, with no recv (and no
\* interrupt or cleanup) in between, the queue holds the last 10 of them in
\* the order they were added (all of them when N <= 10).
C13_LastTenInOrder ==
    (/\ track_calls.pulls = 0
     /\ track_calls.interrupts = 0
     /\ audio_track.live)
    => audio_queue = LastPushed(track_calls.audio_pushed)

\* Eleven frames added, none taken: frames 2 to 11 are queued.
C13_Witness ==
    /\ track_calls.pulls = 0
    /\ track_calls.interrupts = 0
    /\ audio_track.live
    /\ track_calls.audio_pushed > AUDIO_QUEUE_MAXSIZE
    /\ audio_queue = LastPushed(track_calls.audio_pushed)
    /\ audio_queue[AUDIO_QUEUE_MAXSIZE] = track_calls.audio_pushed

\* C14: the frame returned by the k-th recv (k from 0) carries pts 960 * k,
\* be it a queued frame or silence, whatever was added or interrupted in
\* between.
C14_PtsSequence ==
    track_calls.pulls > 0
    => audio_returned.pts = AUDIO_SAMPLES_PER_FRAME * (track_calls.pulls - 1)

\* asyncio.sleep(wait) with a finite wait ends: a sleeping recv() is resumed.
AudioTrackFairSpec == AudioTrackSpec /\ WF_vars(AudioRecvResume)

\* C15: recv() on the audio track never raises and always hands back a
\* frame: every finished call returned the queued frame or a silence frame,
\* on a live track or a stopped one, and a call that sleeps is resumed and
\* returns.
C15_PullAlwaysReturnsFrame ==
    /\ [](track_calls.pulls > 0 => audio_returned.kind \in {"frame", "silence"})
    /\ (audio_track.recv_pc = "sleep") ~> (audio_track.recv_pc = "idle")

\* recv() on a stopped track has returned a silence frame.
C15_Witness ==
    /\ ~audio_track.live
    /\ track_calls.pulls > 0
    /\ audio_returned = RecvFailed
    /\ audio_track.recv_pc = "idle"

\* A step in which a recv() on the audio track returns.
AudioPullReturns == track_calls'.pulls = track_calls.pulls + 1

\* What C16 asks of a returning recv(): silence of 1920 zero bytes from an
\* empty queue, else the oldest queued frame, which leaves the queue.
SubstitutesSilence ==
    IF audio_queue = <<>>
    THEN /\ audio_returned'.kind = "silence"
         /\ audio_returned'.silence_bytes = 1920
         /\ audio_queue' = <<>>
    ELSE /\ audio_returned'.kind = "frame"
         /\ audio_returned'.id = Head(audio_queue)
         /\ audio_queue' = Tail(audio_queue)

\* C16, as stated: every recv() returns silence (1920 zero bytes) when the
\* queue is empty at pull time, and otherwise returns the oldest queued
\* frame and removes it.
C16_SilenceSubstitution == [][AudioPullReturns => SubstitutesSilence]_vars

\* C16, amended: the above holds for a recv() called on a live track; a
\* recv() called on a stopped track returns silence of 1920 zero bytes and
\* leaves the queue as it is, even when it holds frames.
C16_SilenceSubstitutionWhenLive ==
    [][AudioPullReturns =>
         IF audio_track.recv_pc = "idle" /\ ~audio_track.live
         THEN /\ audio_returned'.kind = "silence"
              /\ audio_returned'.silence_bytes = 1920
              /\ UNCHANGED audio_queue
         ELSE SubstitutesSilence]_vars

\* A recv() took frame 1 from a queue that also held frame 2.
C16_Witness ==
    /\ track_calls.pulls = 1
    /\ audio_returned.kind = "frame"
    /\ audio_returned.id = 1
    /\ audio_queue # <<>>
    /\ Head(audio_queue) = 2

\* A step in which a recv() on the video track returns.
VideoPullReturns == video_returned' # video_returned

\* C17: add_frame on the video track leaves exactly the frame just added in
\* the buffer, whatever it held; so a recv() returns the most recently
\* added frame and empties the buffer, and a frame that was overwritten
\* before it was taken is never returned.
C17_LatestWins ==
    [][/\ VideoTrackAddFrame
            => video_queue' = <<track_calls.video_pushed + 1>>
       /\ VideoPullReturns
            => /\ video_returned' =
                    Append(video_returned, track_calls.video_pushed)
               /\ video_queue' = <<>>]_vars

\* F1 and F2 were added with no recv in between; the recv that followed
\* returned F2, and nothing is left.
C17_Witness ==
    /\ track_calls.video_pushed = 2
    /\ video_returned = <<2>>
    /\ video_queue = <<>>
    /\ video_track.recv_pc = "idle"

\* The frames returned so far.
ReturnedVideo == {video_returned[i] : i \in 1..Len(video_returned)}

\* C18: recv() on the video track returns only when the buffer holds a
\* frame; the frame it returns was added before and was not returned
\* before; and a recv() that waits is resumed once a frame has been added.
C18_VideoPullBlocks ==
    /\ [][VideoPullReturns
            => /\ video_queue # <<>>
               /\ Len(video_returned') = Len(video_returned) + 1
               /\ video_returned'[Len(video_returned')]
                    \in (1..track_calls.video_pushed) \ ReturnedVideo]_vars
    /\ (video_track.recv_pc = "get" /\ video_queue # <<>>)
         ~> (video_track.recv_pc = "idle")

\* A recv() is waiting in get() and a frame has just been added.
C18_Witness ==
    /\ video_track.recv_pc = "get"
    /\ video_queue = <<track_calls.video_pushed>>
    /\ Len(video_returned) < track_calls.video_pushed

\* C19: when interrupt() returns the audio queue and the raw byte buffer
\* are empty, whatever they held; the queue stays empty until something is
\* added, and a recv() that finds it empty returns a silence frame.
C19_InterruptDrains ==
    [][/\ AudioInterrupt
            => /\ audio_queue' = <<>>
               /\ audio_track'.buffer = 0
       /\ (audio_queue = <<>> /\ audio_queue' # <<>>)
            => \/ AudioTrackAddFrame
               \/ \E n \in ByteLens : AudioAddNewBytes(n)
       /\ (AudioPullReturns /\ audio_queue = <<>>)
            => /\ audio_returned'.kind = "silence"
               /\ audio_queue' = <<>>]_vars

\* Two frames were added and neither was taken by the one recv(), which
\* returned silence: interrupt() removed them from the queue.
C19_Witness ==
    /\ audio_track.live
    /\ track_calls.interrupts = 1
    /\ track_calls.audio_pushed = 2
    /\ track_calls.pulls = 1
    /\ audio_returned.kind = "silence"
    /\ audio_queue = <<>>
    /\ audio_track.buffer = 0

\* The relay loops that have ended did so on the kill signal.
RelaysEndOnlyOnKill ==
    \A i \in DOMAIN relays :
        relays[i].pc \in {"done", "failed"} => kill_signal

\* The frame-processing loops that have ended did so on shutdown.
ProcsEndOnlyOnShutdown ==
    \A i \in DOMAIN procs : procs[i].pc = "done" => (~run \/ stopping)

\* C20: no relay loop and no frame-processing loop ends because of an error
\* on one frame: a loop that has ended did so because of shutdown (the kill
\* signal for a relay, run or _stopping for a processing loop).
C20_LoopsSurviveFrameErrors == RelaysEndOnlyOnKill /\ ProcsEndOnlyOnShutdown

\* ================================================= the inbound media path
\* Backend tracks -> relay loops -> output queues -> processing loops ->
\* track queues, with enough frames to overfill a queue of the capacity of
\* the video track's.
InboundNext ==
    \/ ConnectCall
    \/ PostSucceeded
    \/ JoinedWake
    \/ Aclose
    \/ OnParticipantJoined("backend_participant")
    \/ \E kind \in Kinds : OnStreamEnabled(kind)
    \/ \E i \in DOMAIN relays : RelayStart(i)
    \/ \E i \in DOMAIN relays : RelayRecvFrameUpTo(i, MaxInbound)
    \/ \E i \in DOMAIN relays : RelayTimeout(i)
    \/ \E i \in DOMAIN procs : ProcStart(i)
    \/ \E i \in DOMAIN procs : ProcWake(i)

InboundSpec == Init /\ [][InboundNext]_vars

\* The audio path alone, down to recv() on the audio track.
AudioPathNext ==
    \/ ConnectCall
    \/ PostSucceeded
    \/ JoinedWake
    \/ Aclose
    \/ OnParticipantJoined("backend_participant")
    \/ OnStreamEnabled("audio")
    \/ \E i \in DOMAIN relays : RelayStart(i)
    \/ \E i \in DOMAIN relays : RelayRecvFrameUpTo(i, MaxInbound)
    \/ \E i \in DOMAIN relays : RelayTimeout(i)
    \/ \E i \in DOMAIN procs : ProcStart(i)
    \/ \E i \in DOMAIN procs : ProcWake(i)
    \/ \E suspends \in BOOLEAN : AudioRecvCall(suspends)
    \/ AudioRecvResume

AudioPathSpec == Init /\ [][AudioPathNext]_vars

\* C21: the output queues that the relay loops fill never hold more frames
\* than the capacity of a frame queue (10 audio frames, 2 video frames),
\* whatever the processing loops do: running, not yet started or ended.
C21_InboundQueuesBounded ==
    /\ Len(output_audio) <= AUDIO_QUEUE_MAXSIZE
    /\ Len(output_video) <= VIDEO_QUEUE_MAXSIZE

StrictlyIncreasing(q) ==
    \A i, j \in DOMAIN q : i < j => q[i] < q[j]

\* The audio frames on their way to recv(), next to be returned first: the
\* track's queue, then the output queue.  A frame is named by its rank in
\* the order the backend track delivered the frames.
AudioInFlight == audio_queue \o output_audio

EventsNext ==
    \/ ConnectCall
    \/ PostSucceeded
    \/ PostFailed
    \/ BackoffElapsed
    \/ JoinedWake
    \/ Aclose
    \/ \E name \in {"backend_participant", "guest"} :
          OnParticipantJoinedUpTo(name, MaxEvents)
    \/ \E kind \in Kinds \cup {"share"} : OnStreamEnabledUpTo(kind, MaxEvents)
    \/ \E i \in DOMAIN relays : RelayStart(i)
    \/ \E i \in DOMAIN relays : RelayTimeout(i)
    \/ \E i \in DOMAIN relays : RelayRecvError(i)

EventsSpec == Init /\ [][EventsNext]_vars

\* The relay loops of a kind that have not ended.
RunningRelays(kind) ==
    {i \in DOMAIN relays :
        relays[i].kind = kind /\ relays[i].pc \notin {"done", "failed"}}

\* C23: there is never more than one send_tts_audio task (a task that has
\* no exit) and never more than one running relay loop per media kind.
C23_SingleProducerSingleConsumer ==
    /\ Len(senders) <= 1
    /\ \A kind \in Kinds : Cardinality(RunningRelays(kind)) <= 1

\* ================================================ the outbound speech path
\* handle_audio_input and the sender task; the event loop runs the sender
\* whenever it can run, and meeting.send returns.
OutboundSpec ==
    /\ ChunkerSpec
    /\ WF_vars(BackoffElapsed)
    /\ WF_vars(JoinedWake)
    /\ \A i \in SenderIds : WF_vars(SenderGet(i)) /\ WF_vars(SenderSend(i))

\* Every chunk a handle_audio_input() call can enqueue.
AllChunks ==
    UNION {{SendAudioData(b, PaddedLen(n))[k] :
              k \in DOMAIN SendAudioData(b, PaddedLen(n))} :
           b \in 1..MaxAudioCalls, n \in InputLens}

Queued(c) == \E k \in DOMAIN tts_audio : tts_audio[k] = c

HandedToSend(c) ==
    \E i \in DOMAIN senders : senders[i].pc = "send" /\ senders[i].chunk = c

RetryInit ==
    /\ InitSession
    /\ plan \in [1..MaxRetryCalls -> {"ok", "fail"}]

RetryConnectCall ==
    /\ ConnectCallUpTo(MaxRetryCalls)
    /\ UNCHANGED kill_signal

RetryNext ==
    \/ RetryConnectCall
    \/ PostSucceeded
    \/ PostFailed
    \/ BackoffElapsed
    \/ JoinedWake
    \/ Aclose
    \/ \E name \in {"backend_participant", "guest"} : OnParticipantJoined(name)

RetrySpec == RetryInit /\ [][RetryNext]_vars

\* C25: _retry_count is always one of 0..3; it never goes up, whether a
\* connect() succeeds or fails; it changes only on a failed attempt, by
\* exactly 1; and a connect() called when it is 0 raises at once, without
\* a POST and without joining a meeting.
C25_RetryBudget ==
    [][/\ retry_count' \in 0..3
       /\ retry_count' <= retry_count
       /\ retry_count' # retry_count => PostFailed
       /\ PostFailed => retry_count' = retry_count - 1
       /\ (RetryConnectCall /\ retry_count = 0)
            => /\ connect_result' = "raised"
               /\ connect_error' = FailedToConnect(last_error)
               /\ connect_pc' = "idle"
               /\ UNCHANGED <<attempts, meetings, retry_count>>]_vars

\* The fourth connect() found the budget at 0 and raised after the three
\* attempts of the earlier calls.
C25_Witness ==
    /\ retry_count = 0
    /\ connect_calls = 4
    /\ attempts = 3
    /\ connect_pc = "idle"
    /\ connect_result = "raised"
    /\ connect_error = FailedToConnect(last_error)

====
